---- MODULE Spec2Model ----
(***************************************************************************)
(* Model of the snake game of src/src/app/page.tsx: the game state held in *)
(* stateRef, the React state of SnakePage (running, gameOver, best) with   *)
(* its batched updates, the frame callback `step` with its catch-up loop,  *)
(* the keyboard and touch handlers, the restart timer and the best-score   *)
(* storage slot.                                                           *)
(*                                                                         *)
(* The browser runs every callback to completion, so an event, a timer or  *)
(* a React commit happens only between two frame callbacks (pc = "idle").  *)
(* The catch-up loop of `step` is unrolled into one action per iteration.  *)
(* The canvas (resizeCanvas, draw, the `cell` field) and the displayed     *)
(* score (setScore) never feed back into the game and are left out.        *)
(***************************************************************************)
EXTENDS Integers, Sequences, FiniteSets, TLC

(***************************************************************************)
(* Bounds of the model.                                                    *)
(***************************************************************************)
\* Cells per side of the board (`gridSize`, 14 in reset, line 88), scaled down.
GridSize == 3
\* Frame timestamps explored: a frame happens only while ts <= MaxTs.
MaxTs == 765
\* The same for the runs checked under fairness.
MaxLiveTs == 595

\* Time between two frame callbacks, in ms: no tick, one tick, two ticks.
Dts == {85, 170, 340}

(***************************************************************************)
(* Values.                                                                 *)
(***************************************************************************)
Null == [x |-> 99, y |-> 99]      \* `null` where a Vec or a point is expected
NoStamp == -1                     \* `null` in gameOverAtRef
NoTimer == 0                      \* `null` in restartTimeoutRef

Vec(a, b) == [x |-> a, y |-> b]

Max(a, b) == IF a >= b THEN a ELSE b
Min(a, b) == IF a <= b THEN a ELSE b
Abs(a) == IF a < 0 THEN -a ELSE a

\* line 18
EQ(a, b) == a.x = b.x /\ a.y = b.y
\* line 19
add(a, b) == [x |-> a.x + b.x, y |-> a.y + b.y]
\* line 42
opposite(a, b) == a.x = -b.x /\ a.y = -b.y

\* lines 22-31
Codes == {"ArrowUp", "ArrowDown", "ArrowLeft", "ArrowRight",
          "KeyW", "KeyS", "KeyA", "KeyD"}
DIRS == [c \in Codes |->
           CASE c \in {"ArrowUp", "KeyW"} -> Vec(0, -1)
             [] c \in {"ArrowDown", "KeyS"} -> Vec(0, 1)
             [] c \in {"ArrowLeft", "KeyA"} -> Vec(-1, 0)
             [] c \in {"ArrowRight", "KeyD"} -> Vec(1, 0)]
\* Key codes the environment sends: the eight mapped ones and one that is not.
KeyInputs == Codes \cup {"Space"}
\* line 33
getDirForCode(code) == IF code \in Codes THEN DIRS[code] ELSE Null

Units == {Vec(0, -1), Vec(0, 1), Vec(-1, 0), Vec(1, 0)}
Cells == {Vec(a, b) : a \in 0..(GridSize - 1), b \in 0..(GridSize - 1)}

\* lines 35-40 without the test of line 38
randFoodAny(gridSize, s) ==
  {[x |-> a, y |-> b] : a \in 0..(gridSize - 1), b \in 0..(gridSize - 1)}
\* lines 35-40: the cells the rejection sampling can return (none: it loops forever)
randFood(gridSize, s) ==
  {f \in {Vec(a, b) : a \in 0..(gridSize - 1), b \in 0..(gridSize - 1)} :
     ~(\E i \in DOMAIN s : EQ(s[i], f))}

(***************************************************************************)
(* Program constants.                                                      *)
(***************************************************************************)
BaseTickMs == 170          \* lines 107 and 258
FloorTickMs == 80          \* line 258
ScoreCap == 30             \* line 258
GraceMs == 250             \* lines 135 and 183
RestartDelayMs == 2000     \* line 212
minSwipeDistance == 30     \* line 158

\* line 258 without Math.min
TickMsForNoClamp(sc) ==
  BaseTickMs - (((BaseTickMs - FloorTickMs) * sc) \div ScoreCap)
\* line 258
TickMsFor(sc) ==
  BaseTickMs - (((BaseTickMs - FloorTickMs) * Min(sc, ScoreCap)) \div ScoreCap)

(***************************************************************************)
(* The best-score storage slot (localStorage["snake_best"]) holds a string *)
(* or nothing.  String(n) is ToString(n); Number(text) is its inverse on   *)
(* decimal numerals and NaN on any other text; Number(null) is 0.          *)
(***************************************************************************)
NaN == -999999
NoItem == [present |-> FALSE, text |-> ""]
Item(t) == [present |-> TRUE, text |-> t]
Numerals == 0..(GridSize * GridSize)
\* line 47
Number(item) ==
  IF ~item.present THEN 0
  ELSE IF \E n \in Numerals : ToString(n) = item.text
       THEN CHOOSE n \in Numerals : ToString(n) = item.text
       ELSE NaN
\* lines 45-49: the initial value of `best`
initialBest(item) ==
  LET v == Number(item) IN IF v # NaN THEN v ELSE 0
\* What the slot may hold when the page is opened.
SlotInputs == {NoItem, Item("abc"), Item("1")}

\* Touch coordinates the environment sends.
TouchStarts == {Vec(0, 0)}
TouchEnds == {Vec(40, 0), Vec(-40, 10), Vec(0, 40), Vec(10, -40),
              Vec(30, 30), Vec(29, 29)}

(***************************************************************************)
(* State.                                                                  *)
(***************************************************************************)
VARIABLES
  snake, dir, nextDir, food, score, tickMs, grace,  \* stateRef.current
  running, gameOver, best,      \* React state as rendered: what `step` closes over
  pRunning, pGameOver,          \* running and gameOver after the updates queued
  bestQueued,                   \* an updater of `best` is queued (line 246)
  stored,                       \* localStorage["snake_best"]
  lastTs, acc,                  \* lastTsRef, accRef
  gameOverAt,                   \* gameOverAtRef
  restartTimeout, timers,       \* restartTimeoutRef, the timers set and not yet fired
  touchStart,                   \* touchStartRef
  pc                            \* where the frame callback is

stVars == <<snake, dir, nextDir, food, score, tickMs, grace>>
reactVars == <<running, gameOver, best, pRunning, pGameOver, bestQueued>>
vars == <<snake, dir, nextDir, food, score, tickMs, grace,
          running, gameOver, best, pRunning, pGameOver, bestQueued, stored,
          lastTs, acc, gameOverAt, restartTimeout, timers, touchStart, pc>>

\* lines 89-92
resetSnake(gridSize) ==
  <<Vec(gridSize \div 2, gridSize \div 2), Vec((gridSize \div 2) - 1, gridSize \div 2)>>

\* lines 87-113: reset() writes a fresh game state and clears the game-over stamp;
\* its setGameOver(false) is queued
reset ==
  /\ snake' = resetSnake(GridSize)
  /\ dir' = Vec(1, 0)
  /\ nextDir' = Vec(1, 0)
  /\ food' \in randFood(GridSize, resetSnake(GridSize))
  /\ score' = 0
  /\ tickMs' = BaseTickMs
  /\ grace' = 0
  /\ pGameOver' = FALSE
  /\ gameOverAt' = NoStamp

\* The state after the first render and its effects (lines 45-49, 50-52, 115-125,
\* 215-269): best read from the slot and written back, reset() done, setRunning(true)
\* queued, `step` registered with running = false.
Init ==
  /\ snake = resetSnake(GridSize)
  /\ dir = Vec(1, 0)
  /\ nextDir = Vec(1, 0)
  /\ food \in randFood(GridSize, resetSnake(GridSize))
  /\ score = 0
  /\ tickMs = BaseTickMs
  /\ grace = 0
  /\ running = FALSE
  /\ gameOver = FALSE
  /\ \E item \in SlotInputs :
       /\ best = initialBest(item)
       /\ stored = Item(ToString(initialBest(item)))
  /\ pRunning = TRUE
  /\ pGameOver = FALSE
  /\ bestQueued = FALSE
  /\ lastTs = 0
  /\ acc = 0
  /\ gameOverAt = NoStamp
  /\ restartTimeout = NoTimer
  /\ timers = {}
  /\ touchStart = Null
  /\ pc = "idle"

(***************************************************************************)
(* Input handlers.                                                         *)
(***************************************************************************)
\* onKey without the test of line 134
onKeyAny(code) ==
  /\ pc = "idle"
  /\ LET d == getDirForCode(code) IN
       IF d = Null
       THEN UNCHANGED <<nextDir, grace>>
       ELSE nextDir' = d /\ grace' = GraceMs
  /\ UNCHANGED <<snake, dir, food, score, tickMs, reactVars, stored, lastTs, acc,
                 gameOverAt, restartTimeout, timers, touchStart>>
  /\ UNCHANGED pc

\* onKey writing the current direction as well
onKeyCommit(code) ==
  /\ pc = "idle"
  /\ LET d == getDirForCode(code) IN
       IF d = Null
       THEN UNCHANGED <<nextDir, grace, dir>>
       ELSE /\ nextDir' = IF ~opposite(d, dir) THEN d ELSE nextDir
            /\ dir' = IF ~opposite(d, dir) THEN d ELSE dir
            /\ grace' = GraceMs
  /\ UNCHANGED <<snake, food, score, tickMs, reactVars, stored, lastTs, acc,
                 gameOverAt, restartTimeout, timers, touchStart>>
  /\ UNCHANGED pc

\* lines 128-136
onKey(code) ==
  /\ pc = "idle"
  /\ LET d == getDirForCode(code) IN
       IF d = Null
       THEN UNCHANGED <<nextDir, grace>>
       ELSE /\ nextDir' = IF ~opposite(d, dir) THEN d ELSE nextDir
            /\ grace' = GraceMs
  /\ UNCHANGED <<snake, dir, food, score, tickMs, reactVars, stored, lastTs, acc,
                 gameOverAt, restartTimeout, timers, touchStart>>
  /\ UNCHANGED pc

\* lines 142-146
handleTouchStart(p) ==
  /\ pc = "idle"
  /\ touchStart' = p
  /\ UNCHANGED <<stVars, reactVars, stored, lastTs, acc, gameOverAt,
                 restartTimeout, timers, pc>>

\* lines 154-177 with the y axis pointing up
swipeDirectionYUp(deltaX, deltaY) ==
  LET absX == Abs(deltaX)
      absY == Abs(deltaY)
  IN IF Max(absX, absY) < minSwipeDistance THEN Null
     ELSE IF absX > absY
          THEN (IF deltaX > 0 THEN Vec(1, 0) ELSE Vec(-1, 0))
          ELSE (IF deltaY > 0 THEN Vec(0, -1) ELSE Vec(0, 1))

\* lines 154-177: the direction of a swipe, Null when it is too short
swipeDirection(deltaX, deltaY) ==
  LET absX == Abs(deltaX)
      absY == Abs(deltaY)
  IN IF Max(absX, absY) < minSwipeDistance THEN Null
     ELSE IF absX > absY
          THEN (IF deltaX > 0 THEN Vec(1, 0) ELSE Vec(-1, 0))
          ELSE (IF deltaY > 0 THEN Vec(0, 1) ELSE Vec(0, -1))

\* lines 148-188
handleTouchEnd(q) ==
  /\ pc = "idle"
  /\ touchStart # Null
  /\ LET direction == swipeDirection(q.x - touchStart.x, q.y - touchStart.y) IN
       IF direction # Null /\ ~opposite(direction, dir)
       THEN nextDir' = direction /\ grace' = GraceMs
       ELSE UNCHANGED <<nextDir, grace>>
  /\ touchStart' = Null
  /\ UNCHANGED <<snake, dir, food, score, tickMs, reactVars, stored, lastTs, acc,
                 gameOverAt, restartTimeout, timers, pc>>

(***************************************************************************)
(* The frame callback.                                                     *)
(***************************************************************************)
\* line 235
commitDir(nd, d) == IF ~opposite(nd, d) THEN nd ELSE d
\* lines 237-241 without the upper edges
hitWallLow(gridSize, h) == h.x < 0 \/ h.y < 0
\* lines 237-241
hitWall(gridSize, h) == h.x < 0 \/ h.y < 0 \/ h.x >= gridSize \/ h.y >= gridSize
\* line 242 sparing the tail cell, which this tick vacates
hitSelfNoTail(s, h) == \E i \in 1..(Len(s) - 1) : EQ(s[i], h)
\* line 242
hitSelf(s, h) == \E i \in DOMAIN s : EQ(s[i], h)
\* line 243 with < for <=
endsGameStrict(hit, g) == hit /\ g < 0
\* line 243: the collision that ends the game
endsGame(hit, g) == hit /\ g <= 0
\* the updater without Math.max
bestUpdaterNoMax(b, sc) == sc
\* line 246: the updater handed to setBest.  setGameOver and setRunning are queued
\* on the component before it, so React runs it in the next render; `st` is then
\* still stateRef.current, reset() being called only after a render.
bestUpdater(b, sc) == Max(b, sc)
\* lines 253-261 with the pop of line 260 on every tick
movedSnakeAlwaysPop(s, h, ate) == SubSeq(<<h>> \o s, 1, Len(s))
\* lines 253-261 without the pop of line 260
movedSnakeNoPop(s, h, ate) == <<h>> \o s
\* lines 253-261: the snake after a move to h
movedSnake(s, h, ate) ==
  IF ate THEN <<h>> \o s ELSE SubSeq(<<h>> \o s, 1, Len(s))

\* lines 217-232 with `=` for the `+=` of line 231
stepUpToNoCarry(d, maxTs) ==
  /\ pc = "idle"
  /\ lastTs + d <= maxTs
  /\ LET ts == lastTs + d
         dt == IF lastTs # 0 THEN ts - lastTs ELSE 0
     IN /\ lastTs' = ts
        /\ IF running /\ ~gameOver
           THEN /\ acc' = dt
                /\ grace' = Max(0, grace - dt)
                /\ pc' = "loop"
           ELSE UNCHANGED <<acc, grace, pc>>
  /\ UNCHANGED <<snake, dir, nextDir, food, score, tickMs, reactVars, stored,
                 gameOverAt, restartTimeout, timers, touchStart>>

\* lines 217-232: a frame callback at timestamp lastTs + d <= maxTs, up to the
\* catch-up loop.  With the stepping phase skipped the callback is over (draw,
\* line 264).
stepUpTo(d, maxTs) ==
  /\ pc = "idle"
  /\ lastTs + d <= maxTs
  /\ LET ts == lastTs + d
         dt == IF lastTs # 0 THEN ts - lastTs ELSE 0
     IN /\ lastTs' = ts
        /\ IF running /\ ~gameOver
           THEN /\ acc' = acc + dt
                /\ grace' = Max(0, grace - dt)
                /\ pc' = "loop"
           ELSE UNCHANGED <<acc, grace, pc>>
  /\ UNCHANGED <<snake, dir, nextDir, food, score, tickMs, reactVars, stored,
                 gameOverAt, restartTimeout, timers, touchStart>>

step(d) == stepUpTo(d, MaxTs)

\* lines 233-262: one iteration of the catch-up loop.  A break ends the callback.
\* performance.now() is read as the timestamp of the frame.
tick ==
  /\ pc = "loop"
  /\ acc >= tickMs
  /\ acc' = acc - tickMs
  /\ dir' = commitDir(nextDir, dir)
  /\ LET newHead == add(snake[1], commitDir(nextDir, dir))
         hit == hitWall(GridSize, newHead) \/ hitSelf(snake, newHead)
         ate == EQ(newHead, food)
         grown == movedSnake(snake, newHead, ate)
     IN IF endsGame(hit, grace)
        THEN /\ pGameOver' = TRUE
             /\ pRunning' = FALSE
             /\ bestQueued' = TRUE
             /\ gameOverAt' = lastTs
             /\ pc' = "idle"
             /\ UNCHANGED <<snake, food, score, tickMs, grace>>
        ELSE IF hit
        THEN /\ grace' = 0
             /\ pc' = "idle"
             /\ UNCHANGED <<snake, food, score, tickMs, pGameOver, pRunning, bestQueued,
                            gameOverAt>>
        ELSE /\ snake' = grown
             /\ IF ate
                THEN /\ score' = score + 1
                     /\ IF randFood(GridSize, grown) = {}
                        THEN pc' = "spin" /\ UNCHANGED <<food, tickMs>>
                        ELSE /\ food' \in randFood(GridSize, grown)
                             /\ tickMs' = TickMsFor(score + 1)
                             /\ pc' = "loop"
                ELSE UNCHANGED <<score, food, tickMs, pc>>
             /\ UNCHANGED <<grace, pGameOver, pRunning, bestQueued, gameOverAt>>
  /\ UNCHANGED <<nextDir, running, gameOver, best, stored, lastTs,
                 restartTimeout, timers, touchStart>>

\* lines 233, 264-265: the loop condition fails, the frame is drawn
stepDone ==
  /\ pc = "loop"
  /\ acc < tickMs
  /\ pc' = "idle"
  /\ UNCHANGED <<stVars, reactVars, stored, lastTs, acc, gameOverAt,
                 restartTimeout, timers, touchStart>>

(***************************************************************************)
(* React: the updates a callback queues are rendered in one batch after    *)
(* it, and the effects of the render run.                                  *)
(***************************************************************************)
\* A timer id setTimeout has not handed out to a timer still pending.
freshTimer == IF restartTimeout = 1 THEN 2 ELSE 1

\* lines 50-52 (best changed), 206-213 (gameOver changed), 215-269 (running or
\* gameOver changed: the frame callback is registered again with the new values)
render ==
  /\ pc = "idle"
  /\ (pRunning # running \/ pGameOver # gameOver \/ bestQueued)
  /\ running' = pRunning
  /\ gameOver' = pGameOver
  /\ LET b == IF bestQueued THEN bestUpdater(best, score) ELSE best IN
       /\ best' = b
       /\ stored' = IF b # best THEN Item(ToString(b)) ELSE stored
  /\ bestQueued' = FALSE
  /\ IF pGameOver # gameOver /\ pGameOver
     THEN /\ timers' = {t \in timers : t.id # restartTimeout}
                         \cup {[id |-> freshTimer, delay |-> RestartDelayMs]}
          /\ restartTimeout' = freshTimer
     ELSE UNCHANGED <<restartTimeout, timers>>
  /\ UNCHANGED <<stVars, pRunning, pGameOver, lastTs, acc, gameOverAt,
                 touchStart, pc>>

\* restart without line 211
restartNoRunning ==
  /\ pc = "idle"
  /\ \E t \in timers : timers' = timers \ {t}
  /\ reset
  /\ UNCHANGED <<running, gameOver, best, pRunning, bestQueued, stored, lastTs, acc,
                 restartTimeout, touchStart, pc>>

\* lines 209-212: the restart timer fires.  The timer is a pending task with its
\* delay; when the delay has run out is left to the environment.
restart ==
  /\ pc = "idle"
  /\ \E t \in timers : timers' = timers \ {t}
  /\ reset
  /\ pRunning' = TRUE
  /\ UNCHANGED <<running, gameOver, best, bestQueued, stored, lastTs, acc,
                 restartTimeout, touchStart, pc>>

Next ==
  \/ \E code \in KeyInputs : onKey(code)
  \/ \E p \in TouchStarts : handleTouchStart(p)
  \/ \E q \in TouchEnds : handleTouchEnd(q)
  \/ \E d \in Dts : step(d)
  \/ tick
  \/ stepDone
  \/ render
  \/ restart

Spec == Init /\ [][Next]_vars

(***************************************************************************)
(* The game with the fairness of the browser's event loop: a callback that *)
(* has started runs to its end, a queued render is performed and a pending *)
(* timer fires.                                                            *)
(***************************************************************************)
NextLive ==
  \/ \E code \in KeyInputs : onKey(code)
  \/ \E p \in TouchStarts : handleTouchStart(p)
  \/ \E q \in TouchEnds : handleTouchEnd(q)
  \/ \E d \in Dts : stepUpTo(d, MaxLiveTs)
  \/ tick
  \/ stepDone
  \/ render
  \/ restart

SpecLive ==
  /\ Init /\ [][NextLive]_vars
  /\ WF_vars(tick) /\ WF_vars(stepDone)
  /\ SF_vars(render) /\ SF_vars(restart)

(***************************************************************************)
(* The score and the tick interval alone: lines 255 and 258 of the eating  *)
(* branch applied over and over from the state reset() leaves, with the    *)
(* board left out, so that the scores the bounded board cannot hold are    *)
(* covered too.                                                            *)
(***************************************************************************)
\* Scores explored by SpecCurve.
MaxCurveScore == 40

\* lines 255, 258
eatCurve ==
  /\ score < MaxCurveScore
  /\ score' = score + 1
  /\ tickMs' = TickMsFor(score + 1)
  /\ UNCHANGED <<snake, dir, nextDir, food, grace, reactVars, stored, lastTs, acc,
                 gameOverAt, restartTimeout, timers, touchStart, pc>>

SpecCurve == Init /\ [][eatCurve]_vars

(***************************************************************************)
(* Notions the properties share.                                           *)
(***************************************************************************)
\* The next step is an iteration of the catch-up loop.
TickPending == pc = "loop" /\ acc >= tickMs
\* The direction that iteration moves in, and the cell it moves to.
Committed == IF nextDir.x = -dir.x /\ nextDir.y = -dir.y THEN dir ELSE nextDir
Candidate == [x |-> snake[1].x + Committed.x, y |-> snake[1].y + Committed.y]
OffBoard(c) == c.x < 0 \/ c.y < 0 \/ c.x >= GridSize \/ c.y >= GridSize
OnSnake(s, c) == \E i \in 1..Len(s) : s[i] = c
Colliding == OffBoard(Candidate) \/ OnSnake(snake, Candidate)

(***************************************************************************)
(* C1.  Grace policy: a tick whose candidate head hits a wall or a cell of *)
(* the pre-move body, taken with grace > 0, does not end the game, sets    *)
(* grace to 0 and leaves the snake, the score and the food unchanged;      *)
(* taken with grace <= 0 it ends the game: game-over is set and running    *)
(* is cleared.                                                             *)
(***************************************************************************)
C1_GracePolicy ==
  [][(TickPending /\ Colliding) =>
       IF grace > 0
       THEN /\ grace' = 0
            /\ UNCHANGED <<snake, score, food>>
            /\ UNCHANGED <<pGameOver, pRunning, bestQueued, gameOverAt>>
       ELSE /\ pGameOver' = TRUE
            /\ pRunning' = FALSE
            /\ UNCHANGED <<snake, score, food>>]_vars

\* A collision has been forgiven: the direction was committed, the snake did not
\* move, grace is spent and no game-over is queued.
C1_Witness ==
  /\ pc = "idle"
  /\ ~pGameOver /\ running /\ ~gameOver
  /\ grace = 0
  /\ Colliding
  /\ snake[1] # [x |-> snake[2].x + dir.x, y |-> snake[2].y + dir.y]

(***************************************************************************)
(* C2.  The game-over transition fires exactly once per game: once the     *)
(* game-over branch has stamped the game-over time, no later frame runs    *)
(* the branch again (stamping a new time) before reset() clears the stamp. *)
(***************************************************************************)
C2_GameOverOnce ==
  [][gameOverAt # NoStamp => gameOverAt' \in {gameOverAt, NoStamp}]_vars

(***************************************************************************)
(* C3.  Tick transition of the snake: a colliding tick leaves the snake    *)
(* and the score unchanged; a tick onto the food prepends the candidate,   *)
(* keeps the tail and adds 1 to the score; any other tick prepends the     *)
(* candidate, drops the last cell and leaves the score unchanged.  So the  *)
(* length grows by at most 1 in a tick and never shrinks.                  *)
(***************************************************************************)
C3_TickTransition ==
  [][TickPending =>
       /\ IF Colliding
          THEN snake' = snake /\ score' = score
          ELSE IF Candidate = food
          THEN snake' = <<Candidate>> \o snake /\ score' = score + 1
          ELSE /\ snake' = <<Candidate>> \o SubSeq(snake, 1, Len(snake) - 1)
               /\ score' = score
       /\ Len(snake') - Len(snake) \in {0, 1}]_vars

\* The snake has eaten once and then moved on without eating.
C3_Witness ==
  /\ score = 1
  /\ Len(snake) = 3
  /\ snake[3] # resetSnake(GridSize)[1]

(***************************************************************************)
(* C4.  Snake well-formedness: in every reachable state the snake's cells  *)
(* are pairwise distinct and on the board, the snake has at least two      *)
(* cells, and the current direction is one of the four unit vectors.       *)
(***************************************************************************)
C4_SnakeWellFormed ==
  /\ Len(snake) >= 2
  /\ \A i \in 1..Len(snake) : ~OffBoard(snake[i])
  /\ \A i, j \in 1..Len(snake) : i # j => snake[i] # snake[j]
  /\ dir \in Units

\* A snake of four cells that has turned twice.
C4_Witness ==
  /\ Len(snake) = 4
  /\ dir = Vec(-1, 0)

(***************************************************************************)
(* C5.  Reversal rejection: the pending direction is never the opposite of *)
(* the current direction, in particular not when a tick commits it; a tick *)
(* never turns the current direction into its opposite, and a pending      *)
(* direction opposite to the current one would leave it unchanged.         *)
(***************************************************************************)
C5_ReversalRejection ==
  /\ [](~(nextDir.x = -dir.x /\ nextDir.y = -dir.y))
  /\ [][TickPending => ~(dir'.x = -dir.x /\ dir'.y = -dir.y)]_vars
  /\ [][(TickPending /\ nextDir.x = -dir.x /\ nextDir.y = -dir.y) => dir' = dir]_vars

\* A turn has been committed by a tick and another direction is pending.
C5_Witness ==
  /\ dir = Vec(0, -1)
  /\ snake[1] = [x |-> snake[2].x, y |-> snake[2].y - 1]
  /\ nextDir = Vec(-1, 0)

(***************************************************************************)
(* C6.  Grace is refreshed only when an input is accepted: a key press or  *)
(* a swipe whose direction is the exact opposite of the current direction  *)
(* leaves grace unchanged.                                                 *)
(***************************************************************************)
C6_GraceOnlyOnAccept ==
  [][/\ \A code \in Codes :
          (onKey(code) /\ DIRS[code].x = -dir.x /\ DIRS[code].y = -dir.y)
            => grace' = grace
     /\ \A q \in TouchEnds :
          LET d == swipeDirection(q.x - touchStart.x, q.y - touchStart.y) IN
            (handleTouchEnd(q) /\ d.x = -dir.x /\ d.y = -dir.y)
              => grace' = grace]_vars

(***************************************************************************)
(* C7.  Food never spawns on an occupied cell: the cell the food spawner   *)
(* returns, at the first reset, at every later reset and after each eaten  *)
(* food, is on the board and is no cell of the snake it was given, which   *)
(* on an eating tick already holds the new head.                           *)
(***************************************************************************)
C7_FoodOffSnake ==
  /\ ~OffBoard(food) /\ ~OnSnake(snake, food)
  /\ [][(restart \/ (TickPending /\ score' = score + 1 /\ pc' # "spin"))
          => ~OffBoard(food') /\ ~OnSnake(snake', food')]_vars

\* Food has been eaten and spawned again, off the grown snake.
C7_Witness ==
  /\ score >= 1
  /\ Len(snake) = score + 2
  /\ ~OffBoard(food) /\ ~OnSnake(snake, food)
  /\ pc = "loop"

(***************************************************************************)
(* C8.  Speed curve: the tick interval is 170 - floor(90 * min(score, 30)  *)
(* / 30) ms in every state; it never increases when the score increases,   *)
(* is 170 at score 0, 125 at score 15 and 80 at every score >= 30.         *)
(***************************************************************************)
C8_SpeedCurve ==
  /\ [](/\ tickMs = 170 - ((90 * (IF score < 30 THEN score ELSE 30)) \div 30)
        /\ (score = 0 => tickMs = 170)
        /\ (score = 15 => tickMs = 125)
        /\ (score >= 30 => tickMs = 80))
  /\ [][score' > score => tickMs' <= tickMs]_vars

\* The floor of the curve has been reached and the score has gone past the cap.
C8_Witness == score = 31 /\ tickMs = 80

\* The curve in the game itself: the interval follows the score there too.
TickMsFollowsScore == tickMs = 170 - ((90 * (IF score < 30 THEN score ELSE 30)) \div 30)

(***************************************************************************)
(* C9.  Automatic restart: at most one restart timer is pending, and every *)
(* entry into game-over is eventually followed by the reset of the restart *)
(* timer: the snake is the two-cell start snake heading right with (1,0)   *)
(* pending, the score is 0, the tick interval 170, grace 0, the game-over  *)
(* flag is cleared, running is set and the food is a cell off the snake.   *)
(***************************************************************************)
FreshGame ==
  /\ snake = <<[x |-> GridSize \div 2, y |-> GridSize \div 2],
               [x |-> (GridSize \div 2) - 1, y |-> GridSize \div 2]>>
  /\ dir = [x |-> 1, y |-> 0]
  /\ nextDir = [x |-> 1, y |-> 0]
  /\ score = 0
  /\ tickMs = 170
  /\ grace = 0
  /\ ~pGameOver
  /\ pRunning
  /\ gameOverAt = NoStamp
  /\ ~OffBoard(food) /\ ~OnSnake(snake, food)

C9_AutoRestart ==
  /\ [](Cardinality(timers) <= 1)
  /\ (pGameOver ~> FreshGame)

\* The restart timer has fired after a game-over and left a fresh game.
C9_Witness ==
  /\ FreshGame
  /\ gameOver
  /\ restartTimeout # NoTimer
  /\ timers = {}

(***************************************************************************)
(* C10.  Best score: the in-memory best never decreases; when a render     *)
(* performs a game-over transition the best becomes the larger of the best *)
(* before it and the score of the game that ended; the storage slot always *)
(* holds the in-memory best.                                               *)
(***************************************************************************)
C10_BestScore ==
  /\ [](stored.present /\ Number(stored) = best)
  /\ [][best' >= best]_vars
  /\ [][(gameOver' /\ ~gameOver) =>
          best' = (IF best >= score THEN best ELSE score)]_vars

\* A game that scored 2 has ended and raised the best score, which is in the slot.
C10_Witness ==
  /\ gameOver
  /\ score = 2
  /\ best = 2
  /\ stored = [present |-> TRUE, text |-> "2"]

(***************************************************************************)
(* One game watched from a frame on, to compare the ways its elapsed time  *)
(* can be split into frames.  The start is a state of the game above: the  *)
(* snake has gone up and then right into the top right corner in           *)
(* GridSize - 1 ticks of frames 170 ms apart, and either ArrowUp or        *)
(* ArrowDown has just been pressed (grace 250, nothing in the              *)
(* accumulator), or no key was pressed and one more frame, too short for a *)
(* tick, has used up the grace of the turn.  The food lies off the snake's *)
(* way, so no food is placed during the game, and no further input         *)
(* arrives: the runs differ only in their frames.                          *)
(***************************************************************************)
\* Elapsed time explored by SpecSplit.
MaxSplitElapsed == 680

FirstTs == CHOOSE d \in Dts : \A e \in Dts : d <= e

splitSnake == <<Vec(GridSize - 1, 0), Vec(GridSize - 2, 0)>>

\* The state SpecSplit starts in, given the direction pending there.
splitStart(nd) ==
  [snake |-> splitSnake, dir |-> Vec(1, 0), nextDir |-> nd,
   grace |-> (IF nd = Vec(1, 0) THEN 0 ELSE GraceMs),
   acc |-> (IF nd = Vec(1, 0) THEN FirstTs ELSE 0),
   ts |-> FirstTs + (GridSize - 1) * BaseTickMs
            + (IF nd = Vec(1, 0) THEN FirstTs ELSE 0),
   tickMs |-> BaseTickMs, over |-> FALSE]

InitSplit ==
  /\ nextDir \in {Vec(1, 0), Vec(0, -1), Vec(0, 1)}
  /\ snake = splitStart(nextDir).snake
  /\ dir = splitStart(nextDir).dir
  /\ grace = splitStart(nextDir).grace
  /\ acc = splitStart(nextDir).acc
  /\ lastTs = splitStart(nextDir).ts
  /\ food \in {f \in randFood(GridSize, splitSnake) : f.x # GridSize - 1}
  /\ score = 0
  /\ tickMs = BaseTickMs
  /\ running = TRUE
  /\ gameOver = FALSE
  /\ \E item \in SlotInputs :
       /\ best = initialBest(item)
       /\ stored = Item(ToString(initialBest(item)))
  /\ pRunning = TRUE
  /\ pGameOver = FALSE
  /\ bestQueued = FALSE
  /\ gameOverAt = NoStamp
  /\ restartTimeout = NoTimer
  /\ timers = {}
  /\ touchStart = Null
  /\ pc = "idle"

NextSplit ==
  \/ \E d \in Dts : stepUpTo(d, splitStart(nextDir).ts + MaxSplitElapsed)
  \/ tick
  \/ stepDone
  \/ render

SpecSplit == InitSplit /\ [][NextSplit]_vars

\* lines 233-262 as a function of the game state, for a game in which no food is
\* reached: the state the catch-up loop leaves
RECURSIVE catchUp(_)
catchUp(st) ==
  IF st.acc < st.tickMs THEN st
  ELSE LET d == commitDir(st.nextDir, st.dir)
           newHead == add(st.snake[1], d)
           hit == hitWall(GridSize, newHead) \/ hitSelf(st.snake, newHead)
           now == [st EXCEPT !.acc = @ - st.tickMs, !.dir = d]
       IN IF endsGame(hit, st.grace) THEN [now EXCEPT !.over = TRUE]
          ELSE IF hit THEN [now EXCEPT !.grace = 0]
          ELSE catchUp([now EXCEPT !.snake = movedSnake(st.snake, newHead, FALSE)])

\* lines 230-262: a whole frame that comes dt after the frame before it
oneFrame(st, dt) ==
  catchUp([st EXCEPT !.acc = @ + dt, !.grace = Max(0, @ - dt)])

\* What is compared: the snake, the direction, the score (no food is reached),
\* whether the game is over, and, while it is not, the time left in the
\* accumulator, which with the elapsed time gives the number of ticks executed.
Outcome(sn, di, over, ac) == <<sn, di, over, IF over THEN 0 ELSE ac>>

SameAsOneFrame ==
  LET ref == oneFrame(splitStart(nextDir), lastTs - splitStart(nextDir).ts) IN
    Outcome(snake, dir, pGameOver, acc)
      = Outcome(ref.snake, ref.dir, ref.over, ref.acc)

Throws == [present |-> FALSE, text |-> "SecurityError"]

\* What the slot, or the storage, may be when the page is opened.
StorageInputs == SlotInputs \cup {Throws}

\* lines 45-52, 58-68: the page after a first render in which the storage threw
Unmounted ==
  /\ snake = <<>>
  /\ dir = Null
  /\ nextDir = Null
  /\ food = Null
  /\ score = 0
  /\ tickMs = 0
  /\ grace = 0
  /\ running = FALSE
  /\ gameOver = FALSE
  /\ best = 0
  /\ stored = Throws
  /\ pRunning = FALSE
  /\ pGameOver = FALSE
  /\ bestQueued = FALSE
  /\ lastTs = 0
  /\ acc = 0
  /\ gameOverAt = NoStamp
  /\ restartTimeout = NoTimer
  /\ timers = {}
  /\ touchStart = Null
  /\ pc = "error"

InitStorage ==
  \E item \in StorageInputs :
    IF item = Throws
    THEN Unmounted
    ELSE /\ Init
         /\ best = initialBest(item)

SpecStorage == InitStorage /\ [][NextLive]_vars

(***************************************************************************)
(* C12.  Whatever the storage does when the page is opened (value missing, *)
(* not a finite number, or access throwing), no error state is entered:    *)
(* the game is mounted, and it starts with best 0 unless the slot held a   *)
(* finite number.                                                          *)
(***************************************************************************)
C12_StorageTolerated ==
  /\ pc # "error"
  /\ (lastTs = 0 /\ ~running) => best \in {0} \cup {Number(i) : i \in SlotInputs}

(***************************************************************************)
(* C13.  The candidate head a tick computes is never the snake's second    *)
(* cell (its neck), whatever keys, swipes and ticks came before, forgiven  *)
(* collisions included.                                                    *)
(***************************************************************************)
C13_NeverIntoNeck == TickPending => Candidate # snake[2]

(***************************************************************************)
(* A game played long enough for the snake to fill the board: keys and     *)
(* frames only, one frame every 170 ms, which is never shorter than the    *)
(* tick interval, so each frame executes a tick.                           *)
(***************************************************************************)
\* Timestamps explored by SpecFill: nine frames.
MaxFillTs == 1530

NextFill ==
  \/ \E code \in Codes : onKey(code)
  \/ stepUpTo(BaseTickMs, MaxFillTs)
  \/ tick
  \/ stepDone
  \/ render

SpecFill == Init /\ [][NextFill]_vars

(***************************************************************************)
(* C14.  The food spawner is never invoked with a snake that occupies      *)
(* every cell of the board: no tick leaves randFood without a free cell to *)
(* return, looping forever.                                                *)
(***************************************************************************)
C14_BoardNeverFull == pc # "spin"

(***************************************************************************)
(* C15.  From the game-over transition until the reset of the automatic    *)
(* restart no tick is executed: no step of a frame callback changes the    *)
(* snake, the current direction, the food, the score, the tick interval or *)
(* the accumulator (which therefore holds, when running resumes, the value *)
(* it had when stepping stopped).                                          *)
(***************************************************************************)
C15_NoTickWhileOver ==
  [][(pGameOver /\ pGameOver')
       => UNCHANGED <<snake, dir, food, score, tickMs, acc>>]_vars

(***************************************************************************)
(* C16.  Input handlers write only the pending direction and grace: every  *)
(* key, touch-start and touch-end event leaves the snake, the current      *)
(* direction, the food, the score, the tick interval, the running and      *)
(* game-over flags (rendered and queued) and the frame loop's accumulator  *)
(* unchanged; a key that maps to no direction and a swipe shorter than the *)
(* threshold leave the pending direction and grace unchanged too.          *)
(***************************************************************************)
C16_HandlersWriteOnlyPending ==
  [][/\ ( \/ \E code \in KeyInputs : onKey(code)
          \/ \E p \in TouchStarts : handleTouchStart(p)
          \/ \E q \in TouchEnds : handleTouchEnd(q) )
          => UNCHANGED <<snake, dir, food, score, tickMs, running, gameOver,
                         pRunning, pGameOver, acc, lastTs>>
     /\ (\E code \in KeyInputs \ Codes : onKey(code))
          => UNCHANGED <<stVars, reactVars>>
     /\ (\E q \in TouchEnds :
            /\ handleTouchEnd(q)
            /\ Max(Abs(q.x - touchStart.x), Abs(q.y - touchStart.y))
                 < minSwipeDistance)
          => UNCHANGED <<stVars, reactVars>>]_vars

\* A key has just been accepted in the middle of a game: the snake has grown, the
\* current direction is still the old one.
C16_Witness ==
  /\ pc = "idle"
  /\ Len(snake) = 3
  /\ dir = Vec(1, 0)
  /\ nextDir = Vec(0, -1)
  /\ grace = GraceMs
  /\ running

(***************************************************************************)
(* C17.  Self-hit is tested against the body before the move, tail cell    *)
(* included, and wall-hit exactly when a coordinate of the candidate head  *)
(* is < 0 or >= N: a tick moves the snake exactly when its candidate is on *)
(* the board and on no cell of the snake as it is, and a candidate on the  *)
(* tail cell, taken with grace <= 0, ends the game.                        *)
(***************************************************************************)
C17_PreMoveBody ==
  [][TickPending =>
       /\ (snake' # snake) <=>
            ~(\/ Candidate.x < 0 \/ Candidate.x >= GridSize
              \/ Candidate.y < 0 \/ Candidate.y >= GridSize
              \/ \E i \in 1..Len(snake) : snake[i] = Candidate)
       /\ (Candidate = snake[Len(snake)] /\ grace <= 0)
            => (pGameOver' /\ ~pRunning' /\ snake' = snake)]_vars

\* The head is about to enter the cell its tail is leaving, with no grace left.
C17_Witness ==
  /\ TickPending
  /\ Len(snake) >= 4
  /\ Candidate = snake[Len(snake)]
  /\ grace <= 0
  /\ ~pGameOver

(***************************************************************************)
(* Swipes of every shape on the freshly reset game: a touch starts at any  *)
(* point of a grid around the threshold distance and ends at the origin.   *)
(***************************************************************************)
SwipeCoords ==
  {c * sign : c \in {0, 1, minSwipeDistance - 1, minSwipeDistance,
                     minSwipeDistance + 1, 2 * minSwipeDistance},
              sign \in {-1, 1}}
SwipeStarts == {Vec(x, y) : x \in SwipeCoords, y \in SwipeCoords}
SwipeEnds == {Vec(0, 0)}

NextSwipe ==
  \/ \E p \in SwipeStarts : handleTouchStart(p)
  \/ \E q \in SwipeEnds : handleTouchEnd(q)

SpecSwipe == Init /\ [][NextSwipe]_vars

(***************************************************************************)
(* C18.  Swipe classification: a swipe with max(|dx|, |dy|) < 30 produces  *)
(* no direction and changes nothing of the game; any other swipe produces  *)
(* one of the four unit vectors: right or left by the sign of dx when      *)
(* |dx| > |dy|, down or up by the sign of dy when |dy| > |dx|; and that    *)
(* direction becomes the pending one unless it reverses the current one.   *)
(***************************************************************************)
C18_SwipeClassification ==
  [][\A q \in SwipeEnds :
       handleTouchEnd(q) =>
         LET dx == q.x - touchStart.x
             dy == q.y - touchStart.y
             d == swipeDirection(dx, dy)
         IN IF Max(Abs(dx), Abs(dy)) < minSwipeDistance
            THEN d = Null /\ UNCHANGED <<stVars, reactVars, acc, lastTs>>
            ELSE /\ d \in {Vec(1, 0), Vec(-1, 0), Vec(0, 1), Vec(0, -1)}
                 /\ (Abs(dx) > Abs(dy) /\ dx > 0) => d = Vec(1, 0)
                 /\ (Abs(dx) > Abs(dy) /\ dx < 0) => d = Vec(-1, 0)
                 /\ (Abs(dy) > Abs(dx) /\ dy > 0) => d = Vec(0, 1)
                 /\ (Abs(dy) > Abs(dx) /\ dy < 0) => d = Vec(0, -1)
                 /\ ~(d.x = -dir.x /\ d.y = -dir.y) => nextDir' = d]_vars

\* A swipe up and slightly to the left, just long enough, has been taken.
C18_Witness ==
  /\ lastTs = 0
  /\ touchStart = Null
  /\ nextDir = Vec(0, -1)
  /\ grace = GraceMs

(***************************************************************************)
(* C19.  In every state of a game, that is after the reset, after every    *)
(* tick, forgiven collision and input event, the score is the length of    *)
(* the snake minus 2 and the food is on no cell of the snake.              *)
(***************************************************************************)
C19_ScoreAndFood ==
  pc \in {"idle", "loop"} =>
    /\ score = Len(snake) - 2
    /\ \A i \in 1..Len(snake) : snake[i] # food

\* Two foods have been eaten and the head now faces the wall, no grace left.
C19_Witness ==
  /\ pc = "idle"
  /\ score = 2
  /\ Len(snake) = 4
  /\ grace = 0
  /\ nextDir = dir
  /\ OffBoard(add(snake[1], dir))
  /\ ~pGameOver

(***************************************************************************)
(* A game whose input stops: keys and swipes arrive only up to the         *)
(* timestamp MaxInputTs, frames keep coming after it for as long as a      *)
(* snake going straight can need to cross the board, be forgiven once and  *)
(* collide again.  The restart timer (2000 ms) lies beyond that time.      *)
(***************************************************************************)
\* The last timestamp at which SpecStraight takes input.
MaxInputTs == 255

\* The longest frame.
LastDt == CHOOSE d \in Dts : \A e \in Dts : d >= e

\* Timestamps explored by SpecStraight: one frame after the last input, then
\* GridSize + 1 ticks at the starting interval, then one tick of margin.
MaxStraightTs == MaxInputTs + LastDt + (GridSize + 2) * BaseTickMs

frame == \E d \in Dts : stepUpTo(d, MaxStraightTs)

NextStraight ==
  \/ lastTs <= MaxInputTs /\ \E code \in KeyInputs : onKey(code)
  \/ lastTs <= MaxInputTs /\ \E p \in TouchStarts : handleTouchStart(p)
  \/ lastTs <= MaxInputTs /\ \E q \in TouchEnds : handleTouchEnd(q)
  \/ frame
  \/ tick
  \/ stepDone
  \/ render

SpecStraight ==
  /\ Init /\ [][NextStraight]_vars
  /\ WF_vars(frame) /\ WF_vars(tick) /\ WF_vars(stepDone)

\* The liveness half of C20: a game that is running no later than one frame after
\* the input has stopped reaches the game-over transition.
EventuallyOver ==
  (running /\ ~pGameOver /\ lastTs <= MaxInputTs + LastDt) ~> pGameOver

\* The forgiveness half of C20: grace, which is what forgives a collision, is
\* set to 0 by the collision it forgives and is raised again only by an input
\* whose direction is accepted.
OneForgivenessPerAccept ==
  /\ [][(TickPending /\ Colliding /\ grace > 0) => grace' = 0]_vars
  /\ [][\A code \in Codes :
          (onKey(code) /\ grace' > grace) => ~opposite(DIRS[code], dir)]_vars
  /\ [][\A q \in TouchEnds :
          (handleTouchEnd(q) /\ grace' > grace) =>
            ~opposite(swipeDirection(q.x - touchStart.x, q.y - touchStart.y), dir)]_vars
  /\ [][grace' > grace =>
          \/ \E code \in Codes : onKey(code)
          \/ \E q \in TouchEnds : handleTouchEnd(q)]_vars

(***************************************************************************)
(* C20.  With no further key or swipe and frames that keep advancing time, *)
(* a running game reaches game-over; and at most one colliding tick is     *)
(* forgiven per accepted input, so that after a forgiven collision the     *)
(* next colliding tick without input in between ends the game.             *)
(***************************************************************************)
C20_StraightToGameOver == EventuallyOver /\ OneForgivenessPerAccept

====
